---- MODULE Spec2Model ----
(***************************************************************************)
(* Model of the two 4CAT processors of ViSCAT:                             *)
(*                                                                         *)
(*   VideoSceneFrames.process    for_4CAT/processors/                      *)
(*                               video_scene_data_translation.py           *)
(*   VlmSceneAnnotation.process  for_4CAT/machine_learning/                *)
(*                               vlm_annotate_scene.py                     *)
(*                                                                         *)
(* Each processor is one run of process(); the two share no state.  The    *)
(* aggregation run is the specification Spec, the annotation run is the    *)
(* specification MatchSpec.  The variables a run does not use stay at      *)
(* their idle values.                                                      *)
(*                                                                         *)
(* Durations are whole seconds (the value pd.to_timedelta returns), the    *)
(* quotients the statistics compute are exact fractions <<n, d>>, and a    *)
(* string the code takes apart (a scene id, a file name) is the tuple of   *)
(* its characters.                                                         *)
(***************************************************************************)
EXTENDS Integers, Sequences, FiniteSets, TLC

VARIABLES
    pc,              \* position of the run inside process()
    outcome,         \* how the run ended: "running" until it has
    status,          \* the last message given to dataset.update_status
    output,          \* the rows of the result file, None while none is written
    finished_rows,   \* the row count given to dataset.finish, None before
    interrupted,     \* self.interrupted
    \* ---- VideoSceneFrames.process
    num_rows,        \* self.source_dataset.num_rows; the source yields at most as many
    shots_read,      \* shots source_dataset.iterate_items has yielded
    video_metadata,  \* the list of per-video dicts
    stat_i,          \* videos the statistics loop has gone through
    first_shot,      \* history: the first shot read for each url, None before
    neg_read,        \* history: shots read whose end_time precedes their start_time
    video_list,      \* the rows read from the top parent dataset, <<>> before
    \* ---- VlmSceneAnnotation.process
    genealogy_list,  \* the types of self.dataset.get_genealogy(), in order; <<>>
                     \* once the loop over it is left, which is its last use
    scene_dataset,   \* index of the ancestor chosen, 0 for None
    scene_list,      \* the scene dicts loaded from it
    column_name,     \* self.parameters.get("column_name")
    file_path,       \* the archive entry read last, None while unbound
    iterator_state,  \* "open", or "closed" once the generator has ended
    entries_read,    \* entries the archive iterator has yielded
    scene_count,     \* images sent to the model so far
    progress,        \* the last value given to dataset.update_progress, None before
    vlm_calls,       \* history: calls of get_vlm_prediction
    last_call,       \* history: how the last call ended, "raised" or "answered"
    images_yielded,  \* history: image entries the archive iterator has yielded
    last_answer      \* history: by file name, the last answer get_vlm_prediction
                     \* gave for a file of that name: Some(text) when line 153
                     \* stored the text, None when no line read it

aggVars == <<num_rows, shots_read, video_metadata, stat_i, first_shot, neg_read,
             video_list>>

matchVars == <<genealogy_list, scene_dataset, scene_list, column_name, file_path,
               iterator_state, entries_read, scene_count, progress, vlm_calls,
               last_call, images_yielded, last_answer>>

vars == <<pc, outcome, status, output, finished_rows, interrupted, aggVars, matchVars>>

----------------------------------------------------------------------------
(* Bounds of the model *)

MaxShots == 3

MaxParent == 2

MaxChain == 2

MaxScenes == 2

MaxArchive == 3

----------------------------------------------------------------------------
(* A value that may be absent is <<>> when absent and <<v>> when it is v *)

None == <<>>

Some(v) == <<v>>

IsSome(o) == o # <<>>

Get(o) == o[1]

NoStatus == "NoStatus"

----------------------------------------------------------------------------
(* Helpers *)

\* d[k] = v on a dict: the key is added when the dict has none.
SetItem(d, k, v) == [x \in (DOMAIN d) \cup {k} |-> IF x = k THEN v ELSE d[x]]

Abs(n) == IF n < 0 THEN -n ELSE n

RECURSIVE Gcd(_, _)
Gcd(a, b) == IF b = 0 THEN a ELSE Gcd(b, a % b)

\* The quotient n / d, d # 0, as a fraction in lowest terms with a positive
\* denominator.
Frac(n, d) ==
    LET g == Gcd(Abs(n), Abs(d))
        s == IF d < 0 THEN -1 ELSE 1
    IN  <<(s * n) \div g, (s * d) \div g>>

----------------------------------------------------------------------------
(* The inputs of VideoSceneFrames.process *)

VideoUrls == {"v1", "v2"}

StartTimes == {0, 20}

EndTimes == {10, 20, 30}

VideoDurations == {0, 120}

FrameRates == {25}

SceneCounts == {0, 3}

\* One item of the source dataset: a detected shot.
ShotRecords ==
    [url : VideoUrls, start_time : StartTimes, end_time : EndTimes,
     total_video_duration : VideoDurations, start_fps : FrameRates,
     num_scenes_detected : SceneCounts]

ParentIds == {"v1", "v9"}

\* The items of the top parent dataset; a dataset videos were taken from has rows.
ParentTables ==
    UNION {[1..n -> [id : ParentIds]] : n \in 1..MaxParent}

----------------------------------------------------------------------------
(* VideoSceneFrames.process: the loop over the shots *)

\* The dict appended for a url seen for the first time.
NewVideo(shot) ==
    [id |-> shot.url,
     frame_rate |-> shot.start_fps,
     shot_count |-> shot.num_scenes_detected,
     total_duration |-> shot.total_video_duration,
     shot_duration_list |-> <<shot.end_time - shot.start_time>>]

\* Mutant of AppendDuration: the shot count is taken anew from the list.
AppendDurationRecount(metadata, id, shot_duration) ==
    [i \in 1..Len(metadata) |->
        IF metadata[i]["id"] = id
        THEN [metadata[i] EXCEPT
                !["shot_duration_list"] = Append(@, shot_duration),
                !["shot_count"] = Len(metadata[i]["shot_duration_list"]) + 1]
        ELSE metadata[i]]

\* The inner loop: every dict with the shot's url gets the duration appended.
AppendDuration(metadata, id, shot_duration) ==
    [i \in 1..Len(metadata) |->
        IF metadata[i]["id"] = id
        THEN [metadata[i] EXCEPT !["shot_duration_list"] = Append(@, shot_duration)]
        ELSE metadata[i]]

\* Mutant of AddShot: no grouping, every shot starts a dict of its own.
AddShotUngrouped(metadata, shot) == Append(metadata, NewVideo(shot))

\* Mutant of AddShot: a shot that ends before it starts is left out.
AddShotSkipNegative(metadata, shot) ==
    LET shot_duration == shot.end_time - shot.start_time
        id_exist == \E i \in 1..Len(metadata) : metadata[i]["id"] = shot.url
    IN  IF shot_duration < 0
        THEN metadata
        ELSE IF id_exist
             THEN AppendDuration(metadata, shot.url, shot_duration)
             ELSE Append(metadata, NewVideo(shot))

\* One pass of the loop body on a shot.
AddShot(metadata, shot) ==
    LET shot_duration == shot.end_time - shot.start_time
        id_exist == \E i \in 1..Len(metadata) : metadata[i]["id"] = shot.url
    IN  IF id_exist
        THEN AppendDuration(metadata, shot.url, shot_duration)
        ELSE Append(metadata, NewVideo(shot))

\* Lines 71-74: an empty source dataset ends the run with zero rows.
NoSource ==
    /\ pc = "start"
    /\ num_rows = 0
    /\ pc' = "done"
    /\ status' = "No videos from which to extract frames."
    /\ finished_rows' = Some(0)
    /\ outcome' = "success"
    /\ UNCHANGED <<output, interrupted, aggVars, matchVars>>

\* Line 76.
Begin ==
    /\ pc = "start"
    /\ num_rows # 0
    /\ pc' = "loop"
    /\ status' = "Translating data and processing calculations..."
    /\ UNCHANGED <<outcome, output, finished_rows, interrupted, aggVars, matchVars>>

\* Lines 83-111 for a shot the source yields while the run is not interrupted.
ReadShot ==
    /\ pc = "loop"
    /\ shots_read < num_rows
    /\ ~interrupted
    /\ \E shot \in ShotRecords :
        /\ video_metadata' = AddShot(video_metadata, shot)
        /\ first_shot' = IF first_shot[shot.url] = None
                         THEN [first_shot EXCEPT ![shot.url] = Some(shot)]
                         ELSE first_shot
        /\ neg_read' = IF shot.end_time < shot.start_time THEN neg_read + 1 ELSE neg_read
    /\ shots_read' = shots_read + 1
    /\ UNCHANGED <<pc, outcome, status, output, finished_rows, interrupted,
                   num_rows, stat_i, video_list, matchVars>>

\* Mutant of RaiseInterrupted: the flag is not looked at and the shot is processed.
IgnoreInterrupted ==
    /\ pc = "loop"
    /\ shots_read < num_rows
    /\ interrupted
    /\ \E shot \in ShotRecords :
        /\ video_metadata' = AddShot(video_metadata, shot)
        /\ first_shot' = IF first_shot[shot.url] = None
                         THEN [first_shot EXCEPT ![shot.url] = Some(shot)]
                         ELSE first_shot
        /\ neg_read' = IF shot.end_time < shot.start_time THEN neg_read + 1 ELSE neg_read
    /\ shots_read' = shots_read + 1
    /\ UNCHANGED <<pc, outcome, status, output, finished_rows, interrupted,
                   num_rows, stat_i, video_list, matchVars>>

\* Lines 85-86: the shot is yielded, the run is interrupted, the exception leaves
\* process().
RaiseInterrupted ==
    /\ pc = "loop"
    /\ shots_read < num_rows
    /\ interrupted
    /\ shots_read' = shots_read + 1
    /\ pc' = "done"
    /\ outcome' = "interrupted"
    /\ UNCHANGED <<status, output, finished_rows, interrupted,
                   num_rows, video_metadata, stat_i, first_shot, neg_read, video_list,
                   matchVars>>

\* The source yields no further shot: the loop ends.
EndOfShots ==
    /\ pc = "loop"
    /\ pc' = "stats"
    /\ UNCHANGED <<outcome, status, output, finished_rows, interrupted, aggVars, matchVars>>

\* The worker is asked to stop.  Only the loop over the shots reads the flag, so
\* a request that comes after the loop changes nothing and is left out.
Interrupt ==
    /\ pc \in {"start", "loop"}
    /\ ~interrupted
    /\ interrupted' = TRUE
    /\ UNCHANGED <<pc, outcome, status, output, finished_rows, aggVars, matchVars>>

----------------------------------------------------------------------------
(* VideoSceneFrames.process: the statistics *)

\* Mutant of Median: the middle of the list in the order of arrival.
MedianUnsorted(list) ==
    LET n == Len(list)
    IN  IF n % 2 = 1
        THEN Frac(list[(n + 1) \div 2], 1)
        ELSE Frac(list[n \div 2] + list[n \div 2 + 1], 2)

\* np.median of a list of durations.
Median(list) ==
    LET sorted == SortSeq(list, LAMBDA a, b : a < b)
        n == Len(sorted)
    IN  IF n % 2 = 1
        THEN Frac(sorted[(n + 1) \div 2], 1)
        ELSE Frac(sorted[n \div 2] + sorted[n \div 2 + 1], 2)

\* Line 117.
Asl(video) == Frac(video["total_duration"], video["shot_count"])

\* Line 125: (shot_count - 1) / (total_seconds / 60).
CutsPerMin(video) == Frac((video["shot_count"] - 1) * 60, video["total_duration"])

\* Lines 116-125 on one video, when no division is by zero.
WithStatistics(video) ==
    SetItem(SetItem(SetItem(video, "asl", Asl(video)),
                    "msl", Median(video["shot_duration_list"])),
            "cuts_per_min", CutsPerMin(video))

\* Lines 116-121 on a video whose total duration is zero: asl and msl are set
\* before line 125 divides.
WithHalfStatistics(video) ==
    SetItem(SetItem(video, "asl", Asl(video)),
            "msl", Median(video["shot_duration_list"]))

\* The divisions of lines 117 and 125 both have a nonzero divisor.
CanDivide(video) == video["shot_count"] # 0 /\ video["total_duration"] # 0

ComputeStatistics ==
    /\ pc = "stats"
    /\ stat_i < Len(video_metadata)
    /\ CanDivide(video_metadata[stat_i + 1])
    /\ video_metadata' = [video_metadata EXCEPT ![stat_i + 1] = WithStatistics(@)]
    /\ stat_i' = stat_i + 1
    /\ UNCHANGED <<pc, outcome, status, output, finished_rows, interrupted,
                   num_rows, shots_read, first_shot, neg_read, video_list,
                   matchVars>>

\* Line 117 or 125 divides by zero: ZeroDivisionError leaves process().
StatisticsDivideByZero ==
    /\ pc = "stats"
    /\ stat_i < Len(video_metadata)
    /\ ~CanDivide(video_metadata[stat_i + 1])
    /\ video_metadata' =
        IF video_metadata[stat_i + 1]["shot_count"] = 0
        THEN video_metadata
        ELSE [video_metadata EXCEPT ![stat_i + 1] = WithHalfStatistics(@)]
    /\ pc' = "done"
    /\ outcome' = "ZeroDivisionError"
    /\ UNCHANGED <<status, output, finished_rows, interrupted,
                   num_rows, shots_read, stat_i, first_shot, neg_read, video_list,
                   matchVars>>

----------------------------------------------------------------------------
(* VideoSceneFrames.process: the output *)

\* Mutant of MergedRowsOf: an inner join, which drops a parent row without a dict.
MergedRowsInner(row, metadata) ==
    LET hits == SelectSeq(metadata, LAMBDA v : v["id"] = row.id)
    IN  [i \in 1..Len(hits) |-> [parent |-> row, video |-> Some(hits[i])]]

\* The rows of pd.merge(parent, metadata, on='id', how='left') for one parent row:
\* one per dict with its id, or one without statistics.
MergedRowsOf(row, metadata) ==
    LET hits == SelectSeq(metadata, LAMBDA v : v["id"] = row.id)
    IN  IF hits = <<>>
        THEN <<[parent |-> row, video |-> None]>>
        ELSE [i \in 1..Len(hits) |-> [parent |-> row, video |-> Some(hits[i])]]

RECURSIVE MergeLeft(_, _)
MergeLeft(parent, metadata) ==
    IF parent = <<>>
    THEN <<>>
    ELSE MergedRowsOf(Head(parent), metadata) \o MergeLeft(Tail(parent), metadata)

\* write_csv_items_and_finish(items).
WriteCsvItemsAndFinish(items) ==
    /\ output' = Some(items)
    /\ finished_rows' = Some(Len(items))
    /\ outcome' = "success"
    /\ pc' = "done"

\* Lines 129-146.
OutputMerged ==
    /\ pc = "stats"
    /\ stat_i = Len(video_metadata)
    /\ video_metadata # <<>>
    /\ status' = "Translation and calculation successful. Merged onto parent dataset"
    /\ \E parent \in ParentTables :
        /\ video_list' = parent
        /\ WriteCsvItemsAndFinish(MergeLeft(parent, video_metadata))
    /\ UNCHANGED <<interrupted, num_rows, shots_read, video_metadata, stat_i,
                   first_shot, neg_read, matchVars>>

\* Lines 148-151.
OutputStandalone ==
    /\ pc = "stats"
    /\ stat_i = Len(video_metadata)
    /\ video_metadata # <<>>
    /\ status' = "Translation and calculation successful."
    /\ WriteCsvItemsAndFinish(video_metadata)
    /\ UNCHANGED <<interrupted, aggVars, matchVars>>

\* Mutant of NothingToOutput: the empty list is written like any other.
EmptyOutputSucceeds ==
    /\ pc = "stats"
    /\ stat_i = Len(video_metadata)
    /\ video_metadata = <<>>
    /\ status' = "Translation and calculation successful."
    /\ WriteCsvItemsAndFinish(video_metadata)
    /\ UNCHANGED <<interrupted, aggVars, matchVars>>

\* Lines 152-153: finish_with_error.
NothingToOutput ==
    /\ pc = "stats"
    /\ stat_i = Len(video_metadata)
    /\ video_metadata = <<>>
    /\ status' = "Unable to translate video metadata. Error encountered"
    /\ outcome' = "failed"
    /\ pc' = "done"
    /\ UNCHANGED <<output, finished_rows, interrupted, aggVars, matchVars>>

----------------------------------------------------------------------------
(* The aggregation run *)

MatchIdle ==
    /\ genealogy_list = <<>>
    /\ scene_dataset = 0
    /\ scene_list = <<>>
    /\ column_name = "annotation"
    /\ file_path = None
    /\ iterator_state = "open"
    /\ entries_read = 0
    /\ scene_count = 0
    /\ progress = None
    /\ vlm_calls = 0
    /\ last_call = "none"
    /\ images_yielded = 0
    /\ last_answer = <<>>

Init ==
    /\ pc = "start"
    /\ outcome = "running"
    /\ status = NoStatus
    /\ output = None
    /\ finished_rows = None
    /\ interrupted = FALSE
    /\ num_rows \in {0, MaxShots}
    /\ shots_read = 0
    /\ video_metadata = <<>>
    /\ stat_i = 0
    /\ first_shot = [u \in VideoUrls |-> None]
    /\ neg_read = 0
    /\ video_list = <<>>
    /\ MatchIdle

Next ==
    \/ NoSource
    \/ Begin
    \/ ReadShot
    \/ RaiseInterrupted
    \/ EndOfShots
    \/ Interrupt
    \/ ComputeStatistics
    \/ StatisticsDivideByZero
    \/ OutputMerged
    \/ OutputStandalone
    \/ NothingToOutput

Spec == Init /\ [][Next]_vars

----------------------------------------------------------------------------
(* The inputs of VlmSceneAnnotation.process *)

DatasetTypes == {"video-scene-detector", "video-downloader"}

\* The ancestor chains: the type of each ancestor, in the order get_genealogy
\* gives them.
Genealogies == UNION {[1..n -> DatasetTypes] : n \in 0..MaxChain}

\* "123.mp4_scene_1" and "123.mp4_scene_2"
SceneIds ==
    {<<"1", "2", "3", ".", "m", "p", "4", "_", "s", "c", "e", "n", "e", "_", "1">>,
     <<"1", "2", "3", ".", "m", "p", "4", "_", "s", "c", "e", "n", "e", "_", "2">>}

SceneRecords == [id : SceneIds, url : {"123.mp4"}]

\* The items of a scene detector dataset.
SceneLists == UNION {[1..n -> SceneRecords] : n \in 0..MaxScenes}

ColumnNames == {"annotation", "url"}

Predictions == {"wide shot", "close-up"}

MetadataName == <<".", "m", "e", "t", "a", "d", "a", "t", "a", ".", "j", "s", "o", "n">>

\* The file names an archive entry may have: ".metadata.json",
\* "123_scene_1.jpeg", "123_scene_2.jpeg", "123.mp4_scene_1.jpeg",
\* "123_scene_1.jpg" and "notes.txt".
ArchiveNames ==
    {MetadataName,
     <<"1", "2", "3", "_", "s", "c", "e", "n", "e", "_", "1", ".", "j", "p", "e", "g">>,
     <<"1", "2", "3", "_", "s", "c", "e", "n", "e", "_", "2", ".", "j", "p", "e", "g">>,
     <<"1", "2", "3", ".", "m", "p", "4", "_", "s", "c", "e", "n", "e", "_", "1",
       ".", "j", "p", "e", "g">>,
     <<"1", "2", "3", "_", "s", "c", "e", "n", "e", "_", "1", ".", "j", "p", "g">>,
     <<"n", "o", "t", "e", "s", ".", "t", "x", "t">>}

\* Line 128.
ImageSuffixes ==
    {<<".", "j", "p", "e", "g">>, <<".", "j", "p", "g">>, <<".", "p", "n", "g">>,
     <<".", "g", "i", "f">>}

----------------------------------------------------------------------------
(* VlmSceneAnnotation.process: the strings *)

StartsWith(s, prefix) ==
    Len(s) >= Len(prefix) /\ SubSeq(s, 1, Len(prefix)) = prefix

Drop(s, n) == SubSeq(s, n + 1, Len(s))

\* re.sub(r'\.mp4', '', id): every occurrence of ".mp4" met from the left is
\* taken out; what the removal joins is not looked at again.
RECURSIVE StripMp4(_)
StripMp4(s) ==
    IF s = <<>> THEN <<>>
    ELSE IF StartsWith(s, <<".", "m", "p", "4">>) THEN StripMp4(Drop(s, 4))
    ELSE <<Head(s)>> \o StripMp4(Tail(s))

\* Mutant of TargetId: the id is not cleaned of ".mp4".
TargetIdUnstripped(scene_dict) == scene_dict["id"] \o <<".", "j", "p", "e", "g">>

\* Lines 147-149: the file name a scene dict is matched with.
TargetId(scene_dict) == StripMp4(scene_dict["id"]) \o <<".", "j", "p", "e", "g">>

\* pathlib's suffix of a file name: from its last dot, when that dot is neither
\* its first nor its last character.
Suffix(name) ==
    LET dots == {k \in 1..Len(name) : name[k] = "."}
        last == IF dots = {} THEN 0 ELSE CHOOSE k \in dots : \A j \in dots : j <= k
    IN  IF 1 < last /\ last < Len(name) THEN SubSeq(name, last, Len(name)) ELSE <<>>

IsMetadata(name) == name = MetadataName

IsImage(name) == ~IsMetadata(name) /\ Suffix(name) \in ImageSuffixes

----------------------------------------------------------------------------
(* VlmSceneAnnotation.process: the scene metadata *)

\* Lines 86-90: the index of the first ancestor of the scene detector type, 0
\* when the loop ends without one.
RECURSIVE FindFrom(_, _)
FindFrom(genealogy, i) ==
    IF i > Len(genealogy) THEN 0
    ELSE IF genealogy[i] = "video-scene-detector" THEN i
    ELSE FindFrom(genealogy, i + 1)

\* Mutant of FindSceneDataset: the loop without its break, the last ancestor of
\* the type wins.
FindLastSceneDataset(genealogy) ==
    LET hits == {i \in 1..Len(genealogy) : genealogy[i] = "video-scene-detector"}
    IN  IF hits = {} THEN 0 ELSE CHOOSE i \in hits : \A j \in hits : j <= i

FindSceneDataset(genealogy) == FindFrom(genealogy, 1)

\* Lines 92-93.
NoSceneMetadata ==
    /\ pc = "start"
    /\ FindSceneDataset(genealogy_list) = 0
    /\ status' = <<"No video scene metadata found">>
    /\ outcome' = "failed"
    /\ pc' = "done"
    /\ UNCHANGED <<output, finished_rows, interrupted, aggVars, matchVars>>

\* Lines 84-110: the ancestor is found and its items are loaded.
LoadScenes ==
    /\ pc = "start"
    /\ FindSceneDataset(genealogy_list) # 0
    /\ scene_dataset' = FindSceneDataset(genealogy_list)
    /\ scene_list' \in SceneLists
    /\ genealogy_list' = <<>>
    /\ pc' = "read"
    /\ UNCHANGED <<outcome, status, output, finished_rows, interrupted, aggVars,
                   column_name, file_path, iterator_state,
                   entries_read, scene_count, progress, vlm_calls, last_call,
                   images_yielded,
                   last_answer>>

----------------------------------------------------------------------------
(* VlmSceneAnnotation.process: reading the archive *)

\* Line 113: the iterator yields an entry.
ReadEntry ==
    /\ pc = "read"
    /\ iterator_state = "open"
    /\ entries_read < MaxArchive
    /\ \E name \in ArchiveNames :
        /\ file_path' = Some(name)
        /\ images_yielded' = IF IsImage(name) THEN images_yielded + 1 ELSE images_yielded
    /\ entries_read' = entries_read + 1
    /\ pc' = "entry"
    /\ UNCHANGED <<outcome, status, output, finished_rows, interrupted, aggVars,
                   genealogy_list, scene_dataset, scene_list, column_name,
                   iterator_state, scene_count, progress, vlm_calls, last_call,
                   last_answer>>

\* Lines 115-117: StopIteration, from an archive that has no further entry or
\* from a generator that has ended.
EndOfArchive ==
    /\ pc = "read"
    /\ pc' = "finish"
    /\ iterator_state' = "closed"
    /\ UNCHANGED <<outcome, status, output, finished_rows, interrupted, aggVars,
                   genealogy_list, scene_dataset, scene_list, column_name, file_path,
                   entries_read, scene_count, progress, vlm_calls, last_call,
                   images_yielded,
                   last_answer>>

\* Lines 118-119: the read raises another exception, which ends the generator;
\* the exception is printed and the loop body runs with file_path as it was.
ReadError ==
    /\ pc = "read"
    /\ iterator_state = "open"
    /\ iterator_state' = "closed"
    /\ pc' = "entry"
    /\ UNCHANGED <<outcome, status, output, finished_rows, interrupted, aggVars,
                   genealogy_list, scene_dataset, scene_list, column_name, file_path,
                   entries_read, scene_count, progress, vlm_calls, last_call,
                   images_yielded,
                   last_answer>>

\* Line 122 reads file_path when no entry was ever read: UnboundLocalError leaves
\* process().
UnboundFilePath ==
    /\ pc = "entry"
    /\ file_path = None
    /\ outcome' = "UnboundLocalError"
    /\ pc' = "done"
    /\ UNCHANGED <<status, output, finished_rows, interrupted, aggVars, matchVars>>

\* Lines 122-125: the metadata file is parsed and the loop goes on.
SkipMetadata ==
    /\ pc = "entry"
    /\ IsSome(file_path)
    /\ IsMetadata(Get(file_path))
    /\ pc' = "read"
    /\ UNCHANGED <<outcome, status, output, finished_rows, interrupted, aggVars, matchVars>>

\* Mutant of SkipOther: a file that is no image is counted as one.
SkipOtherCounted ==
    /\ pc = "entry"
    /\ IsSome(file_path)
    /\ ~IsMetadata(Get(file_path))
    /\ Suffix(Get(file_path)) \notin ImageSuffixes
    /\ scene_count' = scene_count + 1
    /\ pc' = "read"
    /\ UNCHANGED <<outcome, status, output, finished_rows, interrupted, aggVars,
                   genealogy_list, scene_dataset, scene_list, column_name, file_path,
                   iterator_state, entries_read, progress, vlm_calls, last_call,
                   images_yielded,
                   last_answer>>

\* Lines 128-129: not an image.
SkipOther ==
    /\ pc = "entry"
    /\ IsSome(file_path)
    /\ ~IsMetadata(Get(file_path))
    /\ Suffix(Get(file_path)) \notin ImageSuffixes
    /\ pc' = "read"
    /\ UNCHANGED <<outcome, status, output, finished_rows, interrupted, aggVars, matchVars>>

----------------------------------------------------------------------------
(* VlmSceneAnnotation.process: one image *)

\* Lines 144-155: the index of the first scene dict whose target is the file
\* name, 0 when the loop ends without a match.
RECURSIVE MatchFrom(_, _, _)
MatchFrom(scenes, name, i) ==
    IF i > Len(scenes) THEN 0
    ELSE IF TargetId(scenes[i]) = name THEN i
    ELSE MatchFrom(scenes, name, i + 1)

\* Mutant of FindMatch: no break, the last scene dict with the name is the one.
FindLastMatch(scenes, name) ==
    LET found == {i \in 1..Len(scenes) : TargetId(scenes[i]) = name}
    IN  IF found = {} THEN 0 ELSE CHOOSE i \in found : \A j \in found : j <= i

FindMatch(scenes, name) == MatchFrom(scenes, name, 1)

\* Mutant of Annotate: a scene dict that has the column keeps what it has.
AnnotateOnce(scenes, name, column, prediction) ==
    LET m == FindMatch(scenes, name)
    IN  IF m = 0 \/ column \in DOMAIN scenes[m] THEN scenes
        ELSE [scenes EXCEPT ![m] = SetItem(@, column, prediction)]

\* Line 153 on the matching dict, the list as it is without one.
Annotate(scenes, name, column, prediction) ==
    LET m == FindMatch(scenes, name)
    IN  IF m = 0 THEN scenes
        ELSE [scenes EXCEPT ![m] = SetItem(@, column, prediction)]

\* Lines 133-135 with no scene dict loaded: the status is given, then the
\* progress divides by zero, outside the try: ZeroDivisionError leaves process().
ProgressDivideByZero ==
    /\ pc = "entry"
    /\ IsSome(file_path)
    /\ IsImage(Get(file_path))
    /\ scene_list = <<>>
    /\ scene_count' = scene_count + 1
    /\ status' = <<"read by VLM", Get(file_path)>>
    /\ outcome' = "ZeroDivisionError"
    /\ pc' = "done"
    /\ UNCHANGED <<output, finished_rows, interrupted, aggVars,
                   genealogy_list, scene_dataset, scene_list, column_name, file_path,
                   iterator_state, entries_read, progress, vlm_calls, last_call,
                   images_yielded,
                   last_answer>>

\* Lines 133-135 for an image, with a scene dict loaded.
CountImage ==
    /\ pc = "entry"
    /\ IsSome(file_path)
    /\ IsImage(Get(file_path))
    /\ scene_list # <<>>
    /\ scene_count' = scene_count + 1
    /\ progress' = Some(Frac(scene_count + 1, Len(scene_list)))
    /\ vlm_calls' = vlm_calls + 1
    /\ pc' = "read"

\* Lines 136-155: the model answers and a scene dict has the file's name.
AnnotateMatch ==
    /\ CountImage
    /\ FindMatch(scene_list, Get(file_path)) # 0
    /\ \E prediction \in Predictions :
        /\ scene_list' = Annotate(scene_list, Get(file_path), column_name, prediction)
        /\ status' = <<"Prediction for image", Get(file_path), prediction>>
        /\ last_answer' = SetItem(last_answer, Get(file_path), Some(prediction))
    /\ last_call' = "answered"
    /\ UNCHANGED <<outcome, output, finished_rows, interrupted, aggVars,
                   genealogy_list, scene_dataset, column_name, file_path,
                   iterator_state, entries_read, images_yielded>>

\* Lines 136-159: the model answers and no scene dict has the file's name.
NoMatch ==
    /\ CountImage
    /\ FindMatch(scene_list, Get(file_path)) = 0
    /\ last_answer' = SetItem(last_answer, Get(file_path), None)
    /\ status' = <<"No match found for", Get(file_path)>>
    /\ last_call' = "answered"
    /\ UNCHANGED <<outcome, output, finished_rows, interrupted, aggVars,
                   genealogy_list, scene_dataset, scene_list, column_name, file_path,
                   iterator_state, entries_read, images_yielded>>

\* Mutant of PredictionFails: no except clause, the exception leaves process().
PredictionAborts ==
    /\ pc = "entry"
    /\ IsSome(file_path)
    /\ IsImage(Get(file_path))
    /\ scene_list # <<>>
    /\ scene_count' = scene_count + 1
    /\ progress' = Some(Frac(scene_count + 1, Len(scene_list)))
    /\ vlm_calls' = vlm_calls + 1
    /\ last_call' = "raised"
    /\ status' = <<"Predicting scene annotation for", Get(file_path)>>
    /\ outcome' = "Exception"
    /\ pc' = "done"
    /\ UNCHANGED <<output, finished_rows, interrupted, aggVars,
                   genealogy_list, scene_dataset, scene_list, column_name, file_path,
                   iterator_state, entries_read, images_yielded,
                   last_answer>>

\* Lines 136-139 and 161-162: get_vlm_prediction raises.
PredictionFails ==
    /\ CountImage
    /\ status' = <<"Error in VLM prediction", Get(file_path)>>
    /\ last_call' = "raised"
    /\ UNCHANGED <<outcome, output, finished_rows, interrupted, aggVars,
                   genealogy_list, scene_dataset, scene_list, column_name, file_path,
                   iterator_state, entries_read, images_yielded,
                   last_answer>>

----------------------------------------------------------------------------
(* VlmSceneAnnotation.process: the end *)

\* Lines 165-166.
NoFilesFound ==
    /\ pc = "finish"
    /\ scene_list = <<>>
    /\ status' = <<"No files found in archive">>
    /\ outcome' = "failed"
    /\ pc' = "done"
    /\ UNCHANGED <<output, finished_rows, interrupted, aggVars, matchVars>>

\* Lines 167-168.
WriteScenes ==
    /\ pc = "finish"
    /\ scene_list # <<>>
    /\ WriteCsvItemsAndFinish(scene_list)
    /\ UNCHANGED <<status, interrupted, aggVars, matchVars>>

----------------------------------------------------------------------------
(* The annotation run *)

AggIdle ==
    /\ num_rows = 0
    /\ shots_read = 0
    /\ video_metadata = <<>>
    /\ stat_i = 0
    /\ first_shot = [u \in VideoUrls |-> None]
    /\ neg_read = 0
    /\ video_list = <<>>

MatchInit ==
    /\ pc = "start"
    /\ outcome = "running"
    /\ status = <<>>
    /\ output = None
    /\ finished_rows = None
    /\ interrupted = FALSE
    /\ AggIdle
    /\ genealogy_list \in Genealogies
    /\ scene_dataset = 0
    /\ scene_list = <<>>
    /\ column_name \in ColumnNames
    /\ file_path = None
    /\ iterator_state = "open"
    /\ entries_read = 0
    /\ scene_count = 0
    /\ progress = None
    /\ vlm_calls = 0
    /\ last_call = "none"
    /\ images_yielded = 0
    /\ last_answer = <<>>

MatchNext ==
    \/ NoSceneMetadata
    \/ LoadScenes
    \/ ReadEntry
    \/ EndOfArchive
    \/ ReadError
    \/ UnboundFilePath
    \/ SkipMetadata
    \/ SkipOther
    \/ ProgressDivideByZero
    \/ AnnotateMatch
    \/ NoMatch
    \/ PredictionFails
    \/ NoFilesFound
    \/ WriteScenes

MatchSpec == MatchInit /\ [][MatchNext]_vars

----------------------------------------------------------------------------
(* Properties of the aggregation run *)

SeenUrls == {u \in VideoUrls : IsSome(first_shot[u])}

\* The shots the loop body has gone through: the shot an interrupted run was
\* handed last is not among them.
ShotsProcessed == IF outcome = "interrupted" THEN shots_read - 1 ELSE shots_read

RECURSIVE SumLen(_)
SumLen(metadata) ==
    IF metadata = <<>> THEN 0
    ELSE Len(Head(metadata)["shot_duration_list"]) + SumLen(Tail(metadata))

NegativeIn(list) == Cardinality({j \in 1..Len(list) : list[j] < 0})

RECURSIVE SumNegative(_)
SumNegative(metadata) ==
    IF metadata = <<>> THEN 0
    ELSE NegativeIn(Head(metadata)["shot_duration_list"]) + SumNegative(Tail(metadata))

\* C1: once the shots are read, there is exactly one dict per distinct url read,
\* and the shot_count of each is the num_scenes_detected of the first shot read
\* for its url, however many shots with that url followed.
C1_OneAggregatePerId ==
    pc \in {"stats", "done"} =>
        /\ Len(video_metadata) = Cardinality(SeenUrls)
        /\ \A i, j \in 1..Len(video_metadata) :
            video_metadata[i]["id"] = video_metadata[j]["id"] => i = j
        /\ \A i \in 1..Len(video_metadata) :
            /\ video_metadata[i]["id"] \in SeenUrls
            /\ video_metadata[i]["shot_count"] =
                 Get(first_shot[video_metadata[i]["id"]]).num_scenes_detected

\* Two urls read in three shots; the url read twice keeps the count of its first shot.
C1_Witness ==
    /\ pc = "stats"
    /\ shots_read = 3
    /\ Len(video_metadata) = 2
    /\ \E i \in 1..2 :
        /\ Len(video_metadata[i]["shot_duration_list"]) = 2
        /\ video_metadata[i]["shot_count"] = 3

\* C2: a shot yielded while the interruption flag is set ends the run as
\* interrupted, with no statistics step, no file and no row count; an interrupted
\* run is over and has neither, which a success (with or without rows) and a
\* failure both differ from.
C2_InterruptedOutcome ==
    /\ [](outcome = "interrupted" =>
            /\ pc = "done"
            /\ output = None
            /\ finished_rows = None
            /\ stat_i = 0
            /\ status = "Translating data and processing calculations...")
    /\ [](outcome = "success" => IsSome(finished_rows))
    /\ [](outcome = "failed" =>
            status = "Unable to translate video metadata. Error encountered")
    /\ [][(pc = "loop" /\ interrupted /\ shots_read' # shots_read) =>
            (outcome' = "interrupted" /\ video_metadata' = video_metadata)]_vars

\* Interrupted between the second shot and the third.
C2_Witness ==
    /\ outcome = "interrupted"
    /\ shots_read = 3
    /\ SumLen(video_metadata) = 2

\* C4: a division by zero in the statistics of one video does not end the run:
\* a run that read its shots ends as a success or as the named failure, and a
\* standalone success has written every video whose divisions are defined.
C4_DivisionByZeroIsPerVideo ==
    (pc = "done" /\ outcome # "interrupted" /\ num_rows # 0) =>
        /\ outcome \in {"success", "failed"}
        /\ status = "Translation and calculation successful." =>
            output = Some(SelectSeq(video_metadata, CanDivide))

\* C5 as stated: with no dict at the point of output the run ends in the named
\* failure, never as a success with zero rows.
C5_NothingToOutputFails ==
    /\ (pc = "done" /\ video_metadata = <<>> /\ outcome # "interrupted") =>
            (outcome = "failed" /\ output = None)
    /\ outcome = "success" => finished_rows # Some(0)

\* C5 amended: a source dataset of zero rows ends the run as a success with zero
\* rows and no file; with no dict at the point of output for a source dataset
\* that has rows the run ends in the named failure, without file or row count;
\* and a success of a run whose source has rows has at least one row.
C5_NothingToOutputAmended ==
    /\ (pc = "done" /\ video_metadata = <<>> /\ outcome # "interrupted") =>
            IF num_rows = 0
            THEN /\ outcome = "success"
                 /\ finished_rows = Some(0)
                 /\ output = None
                 /\ status = "No videos from which to extract frames."
            ELSE /\ outcome = "failed"
                 /\ finished_rows = None
                 /\ output = None
                 /\ status = "Unable to translate video metadata. Error encountered"
    /\ (outcome = "success" /\ num_rows # 0) =>
            (IsSome(output) /\ Get(finished_rows) >= 1
             /\ Get(finished_rows) = Len(Get(output)))

\* The source has rows and yields no shot.
C5_Witness ==
    /\ pc = "done"
    /\ outcome = "failed"
    /\ num_rows # 0
    /\ shots_read = 0

----------------------------------------------------------------------------
(* Properties of the annotation run *)

Mp4 == <<".", "m", "p", "4">>

Jpeg == <<".", "j", "p", "e", "g">>

\* The places of ".mp4" in an id.
Mp4Places(id) == {k \in 1..Len(id) : StartsWith(Drop(id, k - 1), Mp4)}

\* name is id with its ".mp4" taken out and ".jpeg" put at its end, for an id
\* that holds ".mp4" once at most.
Matches(name, id) ==
    \/ Mp4Places(id) = {} /\ name = id \o Jpeg
    \/ \E k \in Mp4Places(id) :
        /\ Mp4Places(id) = {k}
        /\ name = SubSeq(id, 1, k - 1) \o Drop(id, k + 3) \o Jpeg

NoDetector == \A i \in 1..Len(genealogy_list) : genealogy_list[i] # "video-scene-detector"

\* C3: an archive that yields no entry ends the run in the failure "No files
\* found in archive", with no file written, whatever scene dicts are loaded.
C3_EmptyArchiveFails ==
    (pc = "done" /\ scene_dataset # 0 /\ entries_read = 0
     /\ outcome # "UnboundLocalError") =>
        /\ outcome = "failed"
        /\ status = <<"No files found in archive">>
        /\ output = None

\* C7: a call of the model that raises is caught: the step reports the error as
\* the status, changes no scene dict, leaves the run running and goes back to
\* the head of the loop with the archive where it was; and a run in which the
\* model was called, whether the call raised or not, can always take its next
\* step until it is over, and is over only as a success that writes the scene
\* dicts.
C7_PredictionFailureIsLocal ==
    /\ []((vlm_calls > 0 /\ pc = "done") =>
            (outcome = "success" /\ output = Some(scene_list)))
    /\ [](vlm_calls > 0 => (pc = "done" \/ ENABLED MatchNext))
    /\ [][(vlm_calls' # vlm_calls /\ last_call' = "raised") =>
            /\ status' = <<"Error in VLM prediction", Get(file_path)>>
            /\ scene_list' = scene_list
            /\ outcome' = "running"
            /\ pc' = "read"
            /\ iterator_state' = iterator_state
            /\ entries_read' = entries_read]_vars

\* The last call raised for one file, a later entry was read, and the run ended
\* as a success that wrote the scene dicts.
C7_Witness ==
    /\ pc = "done"
    /\ outcome = "success"
    /\ last_call = "raised"
    /\ status[1] = "Error in VLM prediction"
    /\ Get(file_path) # status[2]
    /\ output = Some(scene_list)

\* C8: when the model has answered for an image, the scene dicts that can be
\* changed are those whose id, with ".mp4" taken out and ".jpeg" put at its end,
\* is the file's name, and one of them gets the column; when there is none, no
\* scene dict changes, the status is "No match found for" the file, and the run
\* goes on.
C8_MatchByCleanedId ==
    [][(vlm_calls' # vlm_calls /\ last_call' = "answered") =>
        LET name == Get(file_path)
            hits == {i \in 1..Len(scene_list) : Matches(name, scene_list[i]["id"])}
        IN  /\ Len(scene_list') = Len(scene_list)
            /\ \A j \in (1..Len(scene_list)) \ hits : scene_list'[j] = scene_list[j]
            /\ IF hits = {}
               THEN /\ scene_list' = scene_list
                    /\ status' = <<"No match found for", name>>
                    /\ outcome' = "running"
                    /\ pc' = "read"
               ELSE /\ \E i \in hits :
                        /\ column_name \in DOMAIN scene_list'[i]
                        /\ scene_list'[i][column_name] \in Predictions
                    /\ status'[1] = "Prediction for image"]_vars

\* "123.mp4_scene_1" was annotated from "123_scene_1.jpeg", then
\* "123.mp4_scene_1.jpeg" found no match, and the run goes on.
C8_Witness ==
    /\ pc = "read"
    /\ outcome = "running"
    /\ column_name = "annotation"
    /\ status = <<"No match found for",
                  <<"1", "2", "3", ".", "m", "p", "4", "_", "s", "c", "e", "n", "e", "_",
                    "1", ".", "j", "p", "e", "g">>>>
    /\ \E i \in 1..Len(scene_list) :
        /\ scene_list[i]["id"] =
            <<"1", "2", "3", ".", "m", "p", "4", "_", "s", "c", "e", "n", "e", "_", "1">>
        /\ "annotation" \in DOMAIN scene_list[i]

\* C9: with no ancestor of the scene detector type the first step of the run
\* is its last: it fails with "No video scene metadata found", having read no
\* archive entry, called the model never and written no file, and no run fails
\* so otherwise; with one or several such ancestors the one chosen is the first
\* of the chain.
C9_SceneDatasetIsFirstDetector ==
    /\ []((outcome = "failed" /\ status = <<"No video scene metadata found">>) =>
            (NoDetector /\ scene_dataset = 0))
    /\ [][pc = "start" =>
            IF NoDetector
            THEN /\ pc' = "done"
                 /\ outcome' = "failed"
                 /\ status' = <<"No video scene metadata found">>
                 /\ output' = None
                 /\ finished_rows' = None
                 /\ entries_read' = 0
                 /\ file_path' = None
                 /\ iterator_state' = "open"
                 /\ vlm_calls' = 0
            ELSE /\ pc' = "read"
                 /\ scene_dataset' \in 1..Len(genealogy_list)
                 /\ genealogy_list[scene_dataset'] = "video-scene-detector"
                 /\ \A j \in 1..(scene_dataset' - 1) :
                        genealogy_list[j] # "video-scene-detector"]_vars

\* The run of a dataset with two ancestors, none a scene detector, has failed.
C9_Witness ==
    /\ pc = "done"
    /\ outcome = "failed"
    /\ Len(genealogy_list) = 2
    /\ NoDetector
    /\ entries_read = 0

\* C10: a run that is over ended as a success with a row count or as a named
\* failure, never by an exception that leaves process(); a failure wrote no file.
C10_OneTerminalOutcome ==
    pc = "done" =>
        /\ outcome \in {"success", "failed"}
        /\ outcome = "success" => (IsSome(finished_rows) /\ IsSome(output))
        /\ outcome = "failed" => (output = None /\ finished_rows = None)

----------------------------------------------------------------------------
(* Properties of the annotation run: progress, frame and order *)

\* C11: every value given to update_progress lies between 0 and 1.
C11_ProgressInUnitInterval ==
    IsSome(progress) =>
        /\ 0 <= Get(progress)[1]
        /\ Get(progress)[1] <= Get(progress)[2]

\* C12: a merged result has one row per parent row, in the parent's order and
\* whether or not a video dict has the row's id; a standalone result has one row
\* per video dict.
C12_OutputRowCounts ==
    (pc = "done" /\ outcome = "success" /\ num_rows # 0) =>
        /\ status = "Translation and calculation successful. Merged onto parent dataset" =>
            /\ Len(Get(output)) = Len(video_list)
            /\ finished_rows = Some(Len(video_list))
            /\ \A i \in 1..Len(video_list) : Get(output)[i].parent = video_list[i]
        /\ status = "Translation and calculation successful." =>
            /\ Len(Get(output)) = Len(video_metadata)
            /\ finished_rows = Some(Len(video_metadata))

\* A merged result of a parent with a row no dict has, while a dict has an id no
\* parent row has.
C12_Witness ==
    /\ pc = "done"
    /\ outcome = "success"
    /\ status = "Translation and calculation successful. Merged onto parent dataset"
    /\ Len(video_list) = 2
    /\ \E i \in 1..Len(video_list) :
        \A k \in 1..Len(video_metadata) : video_metadata[k]["id"] # video_list[i].id
    /\ \E k \in 1..Len(video_metadata) :
        \A i \in 1..Len(video_list) : video_metadata[k]["id"] # video_list[i].id
    /\ \E i \in 1..Len(video_list) :
        \E k \in 1..Len(video_metadata) : video_metadata[k]["id"] = video_list[i].id

\* C13: in every state, the shot_count of each dict is the number of entries of its
\* shot_duration_list, and its total_duration is the total_video_duration of the
\* first shot read for its id.
C13_ShotCountIsListLength ==
    \A i \in 1..Len(video_metadata) :
        /\ video_metadata[i]["shot_count"] = Len(video_metadata[i]["shot_duration_list"])
        /\ video_metadata[i]["total_duration"] =
             Get(first_shot[video_metadata[i]["id"]]).total_video_duration

\* C13, amended: in every state, the shot_count and the total_duration of each dict
\* are the num_scenes_detected and the total_video_duration of the first shot read
\* for its id, whatever the length of its shot_duration_list, which starts with
\* the duration of that shot and has at most one entry per shot gone through.
C13_TotalsOfFirstShot ==
    \A i \in 1..Len(video_metadata) :
        LET video == video_metadata[i]
            first == Get(first_shot[video["id"]])
        IN  /\ video["shot_count"] = first.num_scenes_detected
            /\ video["total_duration"] = first.total_video_duration
            /\ Len(video["shot_duration_list"]) \in 1..ShotsProcessed
            /\ video["shot_duration_list"][1] = first.end_time - first.start_time

\* A dict of two durations whose count is the 3 its first shot announced.
C13_Witness ==
    /\ pc = "loop"
    /\ \E i \in 1..Len(video_metadata) :
        /\ Len(video_metadata[i]["shot_duration_list"]) = 2
        /\ video_metadata[i]["shot_count"] = 3
        /\ video_metadata[i]["total_duration"] = 120
        /\ video_metadata[i]["shot_duration_list"][1] # video_metadata[i]["shot_duration_list"][2]

\* C14: when the model has answered for an image and scene dicts have its name,
\* the first of them in the order of the list, and no other, is written: it has
\* the column with the prediction as its value and its other fields as they
\* were, every other scene dict is as it was, and the list has the same length.
C14_OnlyFirstMatchIsWritten ==
    [][(vlm_calls' # vlm_calls /\ last_call' = "answered") =>
        LET name == Get(file_path)
            hits == {i \in 1..Len(scene_list) : Matches(name, scene_list[i]["id"])}
        IN  hits # {} =>
                LET m == CHOOSE i \in hits : \A j \in hits : i <= j
                IN  /\ status'[1] = "Prediction for image"
                    /\ Len(scene_list') = Len(scene_list)
                    /\ \A j \in (1..Len(scene_list)) \ {m} : scene_list'[j] = scene_list[j]
                    /\ DOMAIN scene_list'[m] = DOMAIN scene_list[m] \cup {column_name}
                    /\ scene_list'[m][column_name] = status'[3]
                    /\ \A k \in DOMAIN scene_list[m] \ {column_name} :
                        scene_list'[m][k] = scene_list[m][k]]_vars

\* Two scene dicts of one id; the model has answered for their image once, and
\* the first has the prediction while the second has no column.
C14_Witness ==
    /\ pc = "read"
    /\ column_name = "annotation"
    /\ vlm_calls = 1
    /\ last_call = "answered"
    /\ status[1] = "Prediction for image"
    /\ Len(scene_list) = 2
    /\ scene_list[1]["id"] = scene_list[2]["id"]
    /\ Matches(Get(file_path), scene_list[1]["id"])
    /\ "annotation" \in DOMAIN scene_list[1]
    /\ scene_list[1]["annotation"] = status[3]
    /\ "annotation" \notin DOMAIN scene_list[2]

\* The k-th smallest entry of a list, by counting: fewer than k entries are
\* below it and at least k are not above it.
KthSmallest(list, k) ==
    CHOOSE x \in {list[j] : j \in 1..Len(list)} :
        /\ Cardinality({j \in 1..Len(list) : list[j] < x}) < k
        /\ k <= Cardinality({j \in 1..Len(list) : list[j] <= x})

\* The fraction f is the quotient n / d.
IsQuotient(f, n, d) == f[2] > 0 /\ f[1] * d = n * f[2]

\* C15: the msl of a dict is the median of its shot_duration_list, the middle
\* entry by rank for an odd length and the mean of the two middle entries for an
\* even one, whatever the order of arrival; its asl is total_duration over
\* shot_count, which is not 0 then, and its cuts_per_min is shot_count - 1 over
\* the minutes of total_duration; a dict the statistics loop has passed has all
\* three.
C15_StatisticsValues ==
    \A i \in 1..Len(video_metadata) :
        LET video == video_metadata[i]
            list == video["shot_duration_list"]
            n == Len(list)
        IN  /\ "msl" \in DOMAIN video =>
                IF n % 2 = 1
                THEN IsQuotient(video["msl"], KthSmallest(list, (n + 1) \div 2), 1)
                ELSE IsQuotient(video["msl"],
                                KthSmallest(list, n \div 2)
                                    + KthSmallest(list, n \div 2 + 1), 2)
            /\ "asl" \in DOMAIN video =>
                /\ video["shot_count"] > 0
                /\ IsQuotient(video["asl"], video["total_duration"], video["shot_count"])
            /\ "cuts_per_min" \in DOMAIN video =>
                /\ video["total_duration"] > 0
                /\ IsQuotient(video["cuts_per_min"],
                              (video["shot_count"] - 1) * 60, video["total_duration"])
            /\ i <= stat_i => {"asl", "msl", "cuts_per_min"} \subseteq DOMAIN video

\* Durations of 10, 20 and 30 seconds that did not arrive in that order, a total
\* of 120 seconds and 3 shots: asl 40, msl 20, cuts_per_min 1.
C15_Witness ==
    \E i \in 1..Len(video_metadata) :
        LET video == video_metadata[i]
        IN  /\ i <= stat_i
            /\ video["shot_duration_list"] \in {<<30, 10, 20>>, <<20, 30, 10>>}
            /\ video["total_duration"] = 120
            /\ video["shot_count"] = 3
            /\ video["asl"] = <<40, 1>>
            /\ video["msl"] = <<20, 1>>
            /\ video["cuts_per_min"] = <<1, 1>>

\* C16: a run whose archive has ended after at least one entry is over as a
\* success that writes the scene list as it is, one row per scene dict.
C16_ExhaustedArchiveEmitsScenes ==
    (pc = "done" /\ iterator_state = "closed" /\ entries_read >= 1) =>
        /\ outcome = "success"
        /\ output = Some(scene_list)
        /\ finished_rows = Some(Len(scene_list))

\* s has the ending t after a stem that is not empty.
EndsWith(s, t) == Len(s) > Len(t) /\ SubSeq(s, Len(s) - Len(t) + 1, Len(s)) = t

\* The entry is an image: not the metadata file, and named *.jpeg, *.jpg, *.png
\* or *.gif.
ImageEntry(name) ==
    /\ name # <<".", "m", "e", "t", "a", "d", "a", "t", "a", ".", "j", "s", "o", "n">>
    /\ \E t \in ImageSuffixes : EndsWith(name, t)

\* C17: the pass of the loop body on the metadata file or on a file that is no
\* image leaves the counter, the progress, every scene dict, the status and the
\* calls of the model as they were and goes back to reading; the pass on an image
\* adds one to the counter; and no step of the run other than the pass on an
\* image changes the counter, the progress or the calls, or a loaded scene dict.
C17_OnlyImagesCount ==
    /\ [][(pc = "entry" /\ IsSome(file_path)) =>
            IF ImageEntry(Get(file_path))
            THEN scene_count' = scene_count + 1
            ELSE /\ UNCHANGED <<scene_count, progress, scene_list, vlm_calls,
                                last_call, status, outcome>>
                 /\ pc' = "read"]_vars
    /\ [][(pc # "start" /\ <<scene_count, progress, scene_list, vlm_calls>>'
                             # <<scene_count, progress, scene_list, vlm_calls>>) =>
            /\ pc = "entry"
            /\ IsSome(file_path)
            /\ ImageEntry(Get(file_path))
            /\ scene_count' = scene_count + 1
            /\ vlm_calls' \in {vlm_calls, vlm_calls + 1}]_vars

\* An image was counted and sent to the model, then "notes.txt" was read and
\* passed: the counter and the progress are those of the one image.
C17_Witness ==
    /\ pc = "read"
    /\ iterator_state = "open"
    /\ entries_read = 2
    /\ file_path = Some(<<"n", "o", "t", "e", "s", ".", "t", "x", "t">>)
    /\ scene_count = 1
    /\ vlm_calls = 1
    /\ progress = Some(<<1, 2>>)

\* C18: the model is called once for each image the archive iterator has
\* yielded: never more often than images were yielded, and as often whenever the
\* run is between two entries or past the last.
C18_OneCallPerYieldedImage ==
    /\ vlm_calls <= images_yielded
    /\ scene_count <= images_yielded
    /\ pc \in {"read", "finish"} => vlm_calls = images_yielded

\* The file names the model has answered for that scene dict i is the first in
\* the list to have.
AnsweredFor(i) ==
    {name \in DOMAIN last_answer :
        /\ Matches(name, scene_list[i]["id"])
        /\ \A j \in 1..(i - 1) : ~Matches(name, scene_list[j]["id"])}

\* C19: with a column the scene dicts do not come with, a scene dict has the
\* column exactly when it is the first of the list with its file name and the
\* model has answered for a file of that name, and its value is the last such
\* answer; a finished run writes the list so.
C19_AnnotationIsLastAnswer ==
    (column_name = "annotation" /\ scene_dataset # 0) =>
        /\ \A i \in 1..Len(scene_list) :
            /\ "annotation" \in DOMAIN scene_list[i] <=> AnsweredFor(i) # {}
            /\ \A name \in AnsweredFor(i) :
                last_answer[name] = Some(scene_list[i]["annotation"])
        /\ (pc = "done" /\ outcome = "success") => output = Some(scene_list)

\* A finished run over two scene dicts of one id and two images, of which the
\* model answered last for one of their name: the first dict has that answer,
\* the second has no column.
C19_Witness ==
    /\ pc = "done"
    /\ outcome = "success"
    /\ column_name = "annotation"
    /\ entries_read = 2
    /\ images_yielded = 2
    /\ vlm_calls = 2
    /\ last_call = "answered"
    /\ Len(scene_list) = 2
    /\ scene_list[1]["id"] = scene_list[2]["id"]
    /\ AnsweredFor(1) = DOMAIN last_answer
    /\ AnsweredFor(1) # {}
    /\ scene_list[1]["annotation"] = status[3]
    /\ "annotation" \notin DOMAIN scene_list[2]
    /\ output = Some(scene_list)

====
